---- MODULE Spec2Model ----
(***************************************************************************)
(* Model of dbus_aurora_pvinverter.py: DbusDummyService, its periodic      *)
(* _update callback (acquisition through AuroraSerialClient followed by    *)
(* the bulk publication on the VeDbusService) and external writes that     *)
(* reach the service through the GLib main loop.                           *)
(*                                                                         *)
(* Numbers are fixed-point integers in thousandths (230.0 V is 230000), so *)
(* that round(x, 2) and the divisions by 3.0, 1000.0 and 3000.0 are        *)
(* computed and not assumed.                                               *)
(***************************************************************************)
EXTENDS Integers, Sequences, FiniteSets, TLC

VARIABLES pc, pubIdx, reg, grid_voltage, grid_current, grid_power,
          cum_energy_total, armed, open, exc, dev, pre, outcome, reqs, upd,
          closeCount, ext, ticks, writes, running, client_time, last

vars == <<pc, pubIdx, reg, grid_voltage, grid_current, grid_power,
          cum_energy_total, armed, open, exc, dev, pre, outcome, reqs, upd,
          closeCount, ext, ticks, writes, running, client_time, last>>

\* Bounds of the exploration.
MaxTicks == 2
MaxWrites == 1

(***************************************************************************)
(* Values held by a path                                                   *)
(***************************************************************************)
Num(n) == [kind |-> "num", n |-> n, s |-> ""]
Str(t) == [kind |-> "str", n |-> 0, s |-> t]
None == [kind |-> "none", n |-> 0, s |-> ""]

\* Nearest integer to n/d (d > 0), ties to even, as Python's round().
RoundDiv(n, d) ==
    LET q == n \div d
        r == n % d
    IN  IF 2 * r < d THEN q
        ELSE IF 2 * r > d THEN q + 1
        ELSE IF q % 2 = 0 THEN q ELSE q + 1

\* round(x, 2) of a value in thousandths.
Round2(m) == 10 * RoundDiv(m, 10)

\* round(x / k, 2) of a value in thousandths.
Round2Div_trunc(m, k) == 10 * (m \div (10 * k))
Round2Div(m, k) == 10 * RoundDiv(m, 10 * k)

(***************************************************************************)
(* The registered paths                                                    *)
(***************************************************************************)
\* The paths dictionary handed to DbusDummyService by main().
paths ==
    [p \in {"/Ac/Power", "/Ac/Current",
            "/Ac/L1/Voltage", "/Ac/L1/Current", "/Ac/L1/Power",
            "/Ac/L2/Voltage", "/Ac/L2/Current", "/Ac/L2/Power",
            "/Ac/L3/Voltage", "/Ac/L3/Current", "/Ac/L3/Power",
            "/Ac/Energy/Forward", "/Ac/L1/Energy/Forward",
            "/Ac/L2/Energy/Forward", "/Ac/L3/Energy/Forward",
            "/Ac/MaxPower"} |->
        IF p \in {"/Ac/Energy/Forward", "/Ac/L1/Energy/Forward",
                  "/Ac/L2/Energy/Forward", "/Ac/L3/Energy/Forward"}
        THEN None ELSE Num(0)]

\* The management and mandatory objects created by __init__.
Mandatory ==
    [p \in {"/Mgmt/ProcessName", "/Mgmt/ProcessVersion", "/Mgmt/Connection",
            "/DeviceInstance", "/ProductId", "/ProductName",
            "/FirmwareVersion", "/HardwareVersion", "/Connected",
            "/Position", "/StatusCode", "/Role", "/DbusInvalid"} |->
        CASE p = "/Mgmt/ProcessName" -> Str("dbus_aurora_pvinverter.py")
          [] p = "/Mgmt/ProcessVersion" ->
                 Str("Unkown version, and running on Python")
          [] p = "/Mgmt/Connection" -> Str("ttyUSB0")
          [] p = "/DeviceInstance" -> Num(0)
          [] p = "/ProductId" -> Num(45069000)
          [] p = "/ProductName" -> Str("Aurora PV-Inverter")
          [] p = "/FirmwareVersion" -> Num(0)
          [] p = "/HardwareVersion" -> Num(0)
          [] p = "/Connected" -> Num(1000)
          [] p = "/Position" -> Num(0)
          [] p = "/StatusCode" -> Num(0)
          [] p = "/Role" -> Str("pvinverter")
          [] OTHER -> None]

Paths == DOMAIN Mandatory \cup DOMAIN paths

\* writeable=True is passed only by the loop over the paths dictionary.
Writable_all(p) == TRUE
Writable_none(p) == FALSE
Writable(p) == p \in DOMAIN paths

\* The change hook: logs and accepts.
handlechangedvalue_reject(path, value) == FALSE
_handlechangedvalue(path, value) == TRUE

(***************************************************************************)
(* The device                                                              *)
(***************************************************************************)
\* What the inverter answers during one cycle (thousandths of V, A, W, Wh).
Readings ==
    { [V |-> 230000, I |-> 15000, P |-> 3450000, E |-> 120500000],
      [V |-> 231456, I |-> 7003, P |-> 1620127, E |-> 120734561] }

NoDev == [V |-> 0, I |-> 0, P |-> 0, E |-> 0]

\* except AuroraError as e
Caught_nothing(e) == FALSE
Caught(e) == e = "AuroraError"

\* client.close(): the port is closed afterwards.
Close_noop(o) == o
Close(o) == FALSE

\* return True at the end of _update keeps the GLib timeout installed.
UpdateReturn_false == FALSE
UpdateReturn == TRUE

\* GLib.MainLoop dispatches one callback at a time: a timeout or a D-Bus
\* request is only dispatched when no callback is running.
MainLoopIdle_threaded == TRUE
MainLoopIdle == pc = "Idle"

NoExt ==
    [path |-> "", val |-> None, res |-> "none", hook |-> FALSE, batch |-> 0]

\* The registry after the add_path calls of __init__.
InitReg ==
    [p \in Paths |-> IF p \in DOMAIN paths THEN paths[p] ELSE Mandatory[p]]

\* No complete reading was published by the previous cycle.
NoLast == [ok |-> FALSE, reg |-> InitReg, dev |-> NoDev, writes |-> 0]

(***************************************************************************)
(* Initial state: after DbusDummyService.__init__                          *)
(***************************************************************************)
Init ==
    /\ pc = "Idle"
    /\ pubIdx = 0
    /\ reg = InitReg
    /\ grid_voltage = 0
    /\ grid_current = 0
    /\ grid_power = 0
    /\ cum_energy_total = 0
    /\ armed = TRUE
    /\ open = FALSE
    /\ exc = "none"
    /\ dev = NoDev
    /\ pre = reg
    /\ outcome = "none"
    /\ reqs = <<>>
    /\ upd = {}
    /\ closeCount = 0
    /\ ext = NoExt
    /\ ticks = 0
    /\ writes = 0
    /\ running = 0
    /\ client_time = 0
    /\ last = NoLast

fields == <<grid_voltage, grid_current, grid_power, cum_energy_total>>
sched == <<armed, ticks, running>>
extern == <<ext, writes>>

(***************************************************************************)
(* The timeout fires: _update starts and calls _getInverterData            *)
(***************************************************************************)
Tick ==
    /\ MainLoopIdle
    /\ armed
    /\ ticks < MaxTicks
    /\ ticks' = ticks + 1
    /\ running' = running + 1
    /\ pc' = "connect"
    /\ \E r \in Readings : dev' = r
    /\ client_time' = 0
    /\ pre' = reg
    /\ outcome' = "pending"
    /\ reqs' = <<>>
    /\ upd' = {}
    /\ closeCount' = 0
    /\ exc' = "none"
    /\ ext' = NoExt
    /\ UNCHANGED <<pubIdx, reg, fields, armed, open, writes, last>>

Raise_resume(e, o) ==
    /\ pc' = CASE pc = "m1" -> "m2"
               [] pc = "m2" -> "m3"
               [] pc = "m3" -> "m5"
               [] OTHER -> "finally"
    /\ exc' = "none"
    /\ outcome' = o

\* An exception e raised inside the try block, with o the outcome it means.
Raise(e, o) ==
    /\ pc' = "finally"
    /\ exc' = IF Caught(e) THEN "none" ELSE e
    /\ outcome' = o

\* client.connect()
Connect ==
    /\ pc = "connect"
    /\ reqs' = Append(reqs, "connect")
    /\ \/ /\ open' = TRUE
          /\ pc' = "time"
          /\ UNCHANGED <<exc, outcome>>
       \/ /\ Raise("AuroraError", "openfail")
          /\ UNCHANGED open
    /\ UNCHANGED <<pubIdx, reg, fields, sched, dev, client_time,
                   pre, upd, closeCount,
                   extern, last>>

\* What client.time_date() returns: the offline marker or a timestamp.
ClockAnswers == {-1, 846000000}

\* if client_time != -1
Online_always(t) == TRUE
Online(t) == t # -1

\* client_time = client.time_date(); if client_time != -1
TimeDate ==
    /\ pc = "time"
    /\ reqs' = Append(reqs, "time_date")
    /\ \/ \E t \in ClockAnswers :
             /\ client_time' = t
             /\ IF Online(t)
                THEN /\ pc' = "m1"
                     /\ UNCHANGED outcome
                ELSE /\ pc' = "offline"
                     /\ outcome' = "offline"
             /\ UNCHANGED exc
       \/ /\ Raise("AuroraError", "timefail")
          /\ UNCHANGED client_time
    /\ UNCHANGED <<pubIdx, reg, fields, sched, open, dev, pre, upd,
                   closeCount, extern, last>>

\* else branch: logging.debug("Client not online"); client.close()
OfflineClose ==
    /\ pc = "offline"
    /\ open' = Close(open)
    /\ closeCount' = closeCount + 1
    /\ pc' = "finally"
    /\ UNCHANGED <<pubIdx, reg, fields, sched, exc, dev, client_time,
                   pre, outcome, reqs,
                   upd, extern, last>>

\* self.grid_voltage = client.measure(1)
MeasureVoltage ==
    /\ pc = "m1"
    /\ reqs' = Append(reqs, "measure1")
    /\ \/ /\ grid_voltage' = dev.V
          /\ upd' = upd \cup {"V"}
          /\ pc' = "m2"
          /\ UNCHANGED <<exc, outcome>>
       \/ /\ Raise("AuroraError", "fail1")
          /\ UNCHANGED <<grid_voltage, upd>>
    /\ UNCHANGED <<pubIdx, reg, grid_current, grid_power, cum_energy_total,
                   sched, open, dev, client_time,
                   pre, closeCount, extern, last>>

\* self.grid_current = client.measure(2)
MeasureCurrent ==
    /\ pc = "m2"
    /\ reqs' = Append(reqs, "measure2")
    /\ \/ /\ grid_current' = dev.I
          /\ upd' = upd \cup {"I"}
          /\ pc' = "m3"
          /\ UNCHANGED <<exc, outcome>>
       \/ /\ Raise("AuroraError", "fail2")
          /\ UNCHANGED <<grid_current, upd>>
    /\ UNCHANGED <<pubIdx, reg, grid_voltage, grid_power, cum_energy_total,
                   sched, open, dev, client_time,
                   pre, closeCount, extern, last>>

\* self.grid_power = client.measure(3)
MeasurePower ==
    /\ pc = "m3"
    /\ reqs' = Append(reqs, "measure3")
    /\ \/ /\ grid_power' = dev.P
          /\ upd' = upd \cup {"P"}
          /\ pc' = "m5"
          /\ UNCHANGED <<exc, outcome>>
       \/ /\ Raise("AuroraError", "fail3")
          /\ UNCHANGED <<grid_power, upd>>
    /\ UNCHANGED <<pubIdx, reg, grid_voltage, grid_current, cum_energy_total,
                   sched, open, dev, client_time,
                   pre, closeCount, extern, last>>

\* self.cum_energy_total = client.cumulated_energy(5)
CumulatedEnergy ==
    /\ pc = "m5"
    /\ reqs' = Append(reqs, "cumulated_energy5")
    /\ \/ /\ cum_energy_total' = dev.E
          /\ upd' = upd \cup {"E"}
          /\ pc' = "finally"
          /\ outcome' = "ok"
          /\ UNCHANGED exc
       \/ /\ Raise("AuroraError", "fail5")
          /\ UNCHANGED <<cum_energy_total, upd>>
    /\ UNCHANGED <<pubIdx, reg, grid_voltage, grid_current, grid_power,
                   sched, open, dev, client_time,
                   pre, closeCount, extern, last>>

\* finally: client.close(); return True.  An exception the handler did not
\* catch leaves _getInverterData and _update after the close, and the main
\* loop drops a timeout whose callback did not return True.
Finally ==
    /\ pc = "finally"
    /\ open' = Close(open)
    /\ closeCount' = closeCount + 1
    /\ IF exc = "none"
       THEN /\ pc' = "pub"
            /\ UNCHANGED <<armed, running>>
       ELSE /\ pc' = "Idle"
            /\ armed' = FALSE
            /\ running' = running - 1
    /\ pubIdx' = 0
    /\ UNCHANGED <<reg, fields, ticks, exc, dev, client_time,
                   pre, outcome, reqs, upd,
                   extern, last>>

Derived_noconst(v, i, p, e) ==
    << <<"/Ac/Power", Round2(p)>>,
       <<"/Ac/Current", Round2(i)>>,
       <<"/Ac/L1/Voltage", Round2(v)>>,
       <<"/Ac/L1/Current", Round2Div(i, 3)>>,
       <<"/Ac/L1/Power", Round2Div(p, 3)>>,
       <<"/Ac/L2/Voltage", Round2(v)>>,
       <<"/Ac/L2/Current", Round2Div(i, 3)>>,
       <<"/Ac/L2/Power", Round2Div(p, 3)>>,
       <<"/Ac/L3/Voltage", Round2(v)>>,
       <<"/Ac/L3/Current", Round2Div(i, 3)>>,
       <<"/Ac/L3/Power", Round2Div(p, 3)>>,
       <<"/Ac/Energy/Forward", Round2Div(e, 1000)>>,
       <<"/Ac/L1/Energy/Forward", Round2Div(e, 3000)>>,
       <<"/Ac/L2/Energy/Forward", Round2Div(e, 3000)>>,
       <<"/Ac/L3/Energy/Forward", Round2Div(e, 3000)>> >>

Derived_accum(v, i, p, e) ==
    << <<"/Ac/Power", Round2(p)>>,
       <<"/Ac/Current", Round2(i)>>,
       <<"/Ac/L1/Voltage", Round2(v)>>,
       <<"/Ac/L1/Current", Round2Div(i, 3)>>,
       <<"/Ac/L1/Power", Round2Div(p, 3)>>,
       <<"/Ac/L2/Voltage", Round2(v)>>,
       <<"/Ac/L2/Current", Round2Div(i, 3)>>,
       <<"/Ac/L2/Power", Round2Div(p, 3)>>,
       <<"/Ac/L3/Voltage", Round2(v)>>,
       <<"/Ac/L3/Current", Round2Div(i, 3)>>,
       <<"/Ac/L3/Power", Round2Div(p, 3)>>,
       <<"/Ac/Energy/Forward",
         reg["/Ac/Energy/Forward"].n + Round2Div(e, 1000)>>,
       <<"/Ac/L1/Energy/Forward", Round2Div(e, 3000)>>,
       <<"/Ac/L2/Energy/Forward", Round2Div(e, 3000)>>,
       <<"/Ac/L3/Energy/Forward", Round2Div(e, 3000)>>,
       <<"/Ac/MaxPower", 10000000>>,
       <<"/StatusCode", 7000>> >>

\* The assignments of the with block of _update, in order, for the fields
\* (v, i, p, e).
Derived(v, i, p, e) ==
    << <<"/Ac/Power", Round2(p)>>,
       <<"/Ac/Current", Round2(i)>>,
       <<"/Ac/L1/Voltage", Round2(v)>>,
       <<"/Ac/L1/Current", Round2Div(i, 3)>>,
       <<"/Ac/L1/Power", Round2Div(p, 3)>>,
       <<"/Ac/L2/Voltage", Round2(v)>>,
       <<"/Ac/L2/Current", Round2Div(i, 3)>>,
       <<"/Ac/L2/Power", Round2Div(p, 3)>>,
       <<"/Ac/L3/Voltage", Round2(v)>>,
       <<"/Ac/L3/Current", Round2Div(i, 3)>>,
       <<"/Ac/L3/Power", Round2Div(p, 3)>>,
       <<"/Ac/Energy/Forward", Round2Div(e, 1000)>>,
       <<"/Ac/L1/Energy/Forward", Round2Div(e, 3000)>>,
       <<"/Ac/L2/Energy/Forward", Round2Div(e, 3000)>>,
       <<"/Ac/L3/Energy/Forward", Round2Div(e, 3000)>>,
       <<"/Ac/MaxPower", 10000000>>,
       <<"/StatusCode", 7000>> >>

PubSeq == Derived(grid_voltage, grid_current, grid_power, cum_energy_total)

\* The value the sequence seq of assignments gives to path q.
Lookup(seq, q) ==
    LET i == CHOOSE j \in 1..Len(seq) : seq[j][1] = q IN seq[i][2]

UpdatePaths == {PubSeq[i][1] : i \in 1..Len(PubSeq)}

Publish_onlynew ==
    /\ pc = "pub"
    /\ pubIdx < Len(PubSeq)
    /\ reg' = IF outcome # "ok" /\
                 PubSeq[pubIdx + 1][1] \notin {"/Ac/MaxPower", "/StatusCode"}
              THEN reg
              ELSE [reg EXCEPT ![PubSeq[pubIdx + 1][1]] =
                                   Num(PubSeq[pubIdx + 1][2])]
    /\ pubIdx' = pubIdx + 1
    /\ pc' = IF pubIdx + 1 = Len(PubSeq) THEN "ret" ELSE "pub"
    /\ UNCHANGED <<fields, sched, open, exc, dev, client_time,
                   pre, outcome, reqs, upd,
                   closeCount, extern, last>>

\* One assignment s[path] = value of the with block.
Publish ==
    /\ pc = "pub"
    /\ pubIdx < Len(PubSeq)
    /\ reg' = [reg EXCEPT ![PubSeq[pubIdx + 1][1]] = Num(PubSeq[pubIdx + 1][2])]
    /\ pubIdx' = pubIdx + 1
    /\ pc' = IF pubIdx + 1 = Len(PubSeq) THEN "ret" ELSE "pub"
    /\ UNCHANGED <<fields, sched, open, exc, dev, client_time,
                   pre, outcome, reqs, upd,
                   closeCount, extern, last>>

\* return True: the callback is over and the timeout stays installed.
Return ==
    /\ pc = "ret"
    /\ pc' = "Idle"
    /\ armed' = UpdateReturn
    /\ running' = running - 1
    /\ pubIdx' = 0
    /\ dev' = NoDev
    /\ client_time' = 0
    /\ pre' = reg
    /\ outcome' = "none"
    /\ reqs' = <<>>
    /\ upd' = {}
    /\ closeCount' = 0
    /\ last' = IF outcome = "ok"
               THEN [ok |-> TRUE, reg |-> reg, dev |-> dev, writes |-> writes]
               ELSE NoLast
    /\ UNCHANGED <<reg, fields, ticks, open, exc, ext, writes>>

(***************************************************************************)
(* External writes                                                         *)
(***************************************************************************)
WritePaths ==
    {"/Ac/Power", "/Ac/L2/Power", "/Ac/L1/Voltage", "/Ac/Energy/Forward",
     "/Ac/MaxPower", "/StatusCode", "/DeviceInstance", "/Role"}

ExtVals == {Num(42500)}

\* requestWrite(name, proposedValue) of the registry.
RequestWrite(p, v) ==
    /\ MainLoopIdle
    /\ writes < MaxWrites
    /\ writes' = writes + 1
    /\ IF ~Writable(p)
       THEN /\ ext' = [path |-> p, val |-> v, res |-> "NotWritableError",
                       hook |-> FALSE, batch |-> pubIdx]
            /\ UNCHANGED reg
       ELSE IF _handlechangedvalue(p, v)
       THEN /\ ext' = [path |-> p, val |-> v, res |-> "ok", hook |-> TRUE,
                       batch |-> pubIdx]
            /\ reg' = [reg EXCEPT ![p] = v]
       ELSE /\ ext' = [path |-> p, val |-> v, res |-> "dropped",
                       hook |-> TRUE, batch |-> pubIdx]
            /\ UNCHANGED reg
    /\ UNCHANGED <<last, pc, pubIdx, fields, sched, open, exc, dev, client_time,
                   pre, outcome,
                   reqs, upd, closeCount>>

ExternalWrite == \E p \in WritePaths, v \in ExtVals : RequestWrite(p, v)

Cycle ==
    \/ Connect
    \/ TimeDate
    \/ OfflineClose
    \/ MeasureVoltage
    \/ MeasureCurrent
    \/ MeasurePower
    \/ CumulatedEnergy
    \/ Finally
    \/ Publish
    \/ Return

Next ==
    \/ Tick
    \/ Connect
    \/ TimeDate
    \/ OfflineClose
    \/ MeasureVoltage
    \/ MeasureCurrent
    \/ MeasurePower
    \/ CumulatedEnergy
    \/ Finally
    \/ Publish
    \/ Return
    \/ ExternalWrite

Spec == Init /\ [][Next]_vars

\* The code between two returns to the main loop runs to completion, and an
\* installed timeout fires again.
FairSpec == Spec /\ WF_vars(Cycle) /\ WF_vars(Tick)

TypeOK ==
    /\ pc \in {"Idle", "connect", "time", "offline", "m1", "m2", "m3", "m5",
               "finally", "pub", "ret"}
    /\ pubIdx \in 0..Len(PubSeq)
    /\ DOMAIN reg = Paths
    /\ armed \in BOOLEAN
    /\ open \in BOOLEAN
    /\ exc \in {"none", "AuroraError"}
    /\ ticks \in 0..MaxTicks
    /\ writes \in 0..MaxWrites

(***************************************************************************)
(* Properties                                                              *)
(***************************************************************************)
PowerPaths == {"/Ac/Power", "/Ac/L1/Power", "/Ac/L2/Power", "/Ac/L3/Power"}
VoltagePaths == {"/Ac/L1/Voltage", "/Ac/L2/Voltage", "/Ac/L3/Voltage"}
CurrentPaths ==
    {"/Ac/Current", "/Ac/L1/Current", "/Ac/L2/Current", "/Ac/L3/Current"}
EnergyPaths ==
    {"/Ac/Energy/Forward", "/Ac/L1/Energy/Forward", "/Ac/L2/Energy/Forward",
     "/Ac/L3/Energy/Forward"}
ConstPaths == {"/Ac/MaxPower", "/StatusCode"}

\* The paths derived from the field measured by request k.
PathsOf(k) ==
    CASE k = "measure1" -> VoltagePaths
      [] k = "measure2" -> CurrentPaths
      [] k = "measure3" -> PowerPaths
      [] OTHER -> EnergyPaths

MeasureReqs == {"measure1", "measure2", "measure3", "cumulated_energy5"}

\* The request whose failure is recorded by outcome o.
FailedReq(o) ==
    CASE o = "fail1" -> "measure1"
      [] o = "fail2" -> "measure2"
      [] o = "fail3" -> "measure3"
      [] OTHER -> "cumulated_energy5"

Issued == {reqs[i] : i \in 1..Len(reqs)}

\* What the cycle would publish from the device's answers of this cycle.
Fresh(q) == Num(Lookup(Derived(dev.V, dev.I, dev.P, dev.E), q))

\* The cycle is over: every assignment of the with block has been made.
CycleEnd == pc = "ret"

\* C1: in a cycle where no reading is obtained (open failure or offline
\* marker) no registered path changes value except /Ac/MaxPower and
\* /StatusCode.
C1_NoReadingFrame ==
    (CycleEnd /\ outcome \in {"openfail", "offline"}) =>
        \A q \in Paths \ ConstPaths : reg[q] = pre[q]

\* C2: when one of the four measurement requests fails, only the paths of
\* that field keep their old values; every other field is still requested
\* and its paths hold the new values.
C2_FailureIsolated ==
    (CycleEnd /\ outcome \in {"fail1", "fail2", "fail3", "fail5"}) =>
        /\ \A q \in PathsOf(FailedReq(outcome)) : reg[q] = pre[q]
        /\ \A k \in MeasureReqs \ {FailedReq(outcome)} :
              /\ k \in Issued
              /\ \A q \in PathsOf(k) : reg[q] = Fresh(q)

\* C3: device online, voltage and current measured, power request fails:
\* the power paths hold the values they held immediately before the cycle,
\* the voltage paths hold the new voltage, /Ac/MaxPower = 10000 and
\* /StatusCode = 7.
C3_PowerFailure ==
    (CycleEnd /\ outcome = "fail3") =>
        /\ \A q \in PowerPaths : reg[q] = pre[q]
        /\ \A q \in VoltagePaths : reg[q] = Num(Round2(dev.V))
        /\ reg["/Ac/MaxPower"] = Num(10000000)
        /\ reg["/StatusCode"] = Num(7000)

\* C4: after every cycle, failed or not, the scheduler is Idle again with
\* the timer still installed, and another tick fires (up to the bound on
\* ticks).
C4_StaysArmed ==
    /\ [](armed)
    /\ []((pc # "Idle") => <>(pc = "Idle" /\ armed))
    /\ []((pc = "Idle" /\ ticks < MaxTicks) => <>(pc = "connect"))

\* A second tick has fired after a first cycle that failed at the current
\* request.
C4_Witness ==
    /\ ticks = 2
    /\ pc = "connect"
    /\ armed
    /\ grid_voltage # 0
    /\ grid_current = 0

Failures == {"openfail", "timefail", "fail1", "fail2", "fail3", "fail5"}

\* C5: no error raised by connect, the clock query or a measurement leaves
\* the acquisition: after the close no exception is pending and the
\* publication of the same tick is what runs next.
C5_NoErrorEscapes ==
    [][(pc = "finally" /\ outcome \in Failures) =>
           (exc = "none" /\ pc' \in {"finally", "pub"})]_vars

C5_Witness ==
    /\ pc = "pub"
    /\ pubIdx = 3
    /\ outcome = "timefail"

\* C6: no external request is served while a tick's bulk update is
\* partially applied: whenever the main loop can dispatch one, and whenever
\* one was served, none of the tick's assignments is pending.
C6_AtomicBatch ==
    /\ MainLoopIdle => pubIdx = 0
    /\ ext.res # "none" => ext.batch = 0
    /\ (MainLoopIdle /\ ticks > 0 /\ ext.res = "none") =>
          \A q \in UpdatePaths : reg[q] = Num(Lookup(PubSeq, q))

C6_Witness ==
    /\ pc = "Idle"
    /\ ticks = 1
    /\ ext.res = "ok"
    /\ ext.path = "/Ac/L2/Power"
    /\ grid_power # 0
    /\ reg["/Ac/L1/Power"] = Num(Round2Div(grid_power, 3))

\* C7: every acquisition closes the transport before it returns, on every
\* exit path; while the scheduler is Idle no transport is open.
C7_TransportClosed ==
    /\ pc \in {"Idle", "pub", "ret"} => ~open
    /\ pc \in {"pub", "ret"} => closeCount >= 1

C7_Witness ==
    /\ pc = "pub"
    /\ outcome = "fail3"
    /\ "time_date" \in Issued
    /\ ~open

\* C8 as stated: every path written by the bulk update is registered
\* writable, so an external write to any of them is accepted.
C8_AllUpdateWritable ==
    (ext.res # "none" /\ ext.path \in UpdatePaths) =>
        (Writable(ext.path) /\ ext.res = "ok")

\* C8 amended: every path written by the bulk update except /StatusCode is
\* registered writable and an external write to it is accepted; /StatusCode
\* is registered without the flag and an external write to it is rejected.
C8_TelemetryWritable ==
    /\ \A q \in UpdatePaths \ {"/StatusCode"} : Writable(q)
    /\ ~Writable("/StatusCode")
    /\ (ext.res # "none" /\ ext.path \in UpdatePaths) =>
          (ext.res = "ok" <=> ext.path # "/StatusCode")

C8_Witness ==
    /\ ext.path = "/Ac/MaxPower"
    /\ ext.res = "ok"
    /\ reg["/Ac/MaxPower"] = Num(42500)

\* C9: an external write to a path registered without the writable flag is
\* rejected with an error, the change hook is not applied and no path
\* changes value.
C9_WriteRejected ==
    [][(writes' # writes /\ ext'.path \in DOMAIN Mandatory) =>
           (ext'.res = "NotWritableError" /\ ~ext'.hook /\ reg' = reg)]_vars

C9_Witness ==
    /\ ext.path = "/DeviceInstance"
    /\ ext.res = "NotWritableError"
    /\ ~ext.hook
    /\ reg["/DeviceInstance"] = Num(0)

\* C10: an external write of v to a writable path invokes the change hook,
\* which accepts; the write is committed and the path holds v until the
\* next tick.
C10_WriteCommitted ==
    (ext.res # "none" /\ ext.path \in DOMAIN paths) =>
        (ext.res = "ok" /\ ext.hook /\ reg[ext.path] = ext.val)

C10_Witness ==
    /\ ext.path = "/Ac/Power"
    /\ ext.val = Num(42500)
    /\ ext.res = "ok"
    /\ ticks = 1
    /\ reg["/Ac/Power"] = Num(42500)

\* x is a number with 2 decimals and within half a hundredth of m / k.
IsRound2(x, m, k) ==
    /\ x.kind = "num"
    /\ x.n % 10 = 0
    /\ 2 * (x.n * k - m) <= 10 * k
    /\ 2 * (m - x.n * k) <= 10 * k

\* C11: for every reading (V, I, P, E) obtained in full the cycle publishes,
\* rounded to 2 decimals, P, I, V per phase, I/3 and P/3 per phase, E/1000
\* and E/3000 per phase; V=230, I=15, P=3450, E=120500 gives 5.0 A,
\* 1150.0 W, 120.5 and 40.17.
C11_Published ==
    (CycleEnd /\ outcome = "ok") =>
        /\ IsRound2(reg["/Ac/Power"], dev.P, 1)
        /\ IsRound2(reg["/Ac/Current"], dev.I, 1)
        /\ \A q \in VoltagePaths : IsRound2(reg[q], dev.V, 1)
        /\ \A q \in CurrentPaths \ {"/Ac/Current"} : IsRound2(reg[q], dev.I, 3)
        /\ \A q \in PowerPaths \ {"/Ac/Power"} : IsRound2(reg[q], dev.P, 3)
        /\ IsRound2(reg["/Ac/Energy/Forward"], dev.E, 1000)
        /\ \A q \in EnergyPaths \ {"/Ac/Energy/Forward"} :
              IsRound2(reg[q], dev.E, 3000)
        /\ dev = [V |-> 230000, I |-> 15000, P |-> 3450000, E |-> 120500000]
              => /\ reg["/Ac/Power"] = Num(3450000)
                 /\ reg["/Ac/Current"] = Num(15000)
                 /\ reg["/Ac/L1/Voltage"] = Num(230000)
                 /\ reg["/Ac/L1/Current"] = Num(5000)
                 /\ reg["/Ac/L1/Power"] = Num(1150000)
                 /\ reg["/Ac/Energy/Forward"] = Num(120500)
                 /\ reg["/Ac/L1/Energy/Forward"] = Num(40170)

C11_Witness ==
    /\ CycleEnd
    /\ outcome = "ok"
    /\ dev.E = 120500000
    /\ reg["/Ac/L3/Energy/Forward"] = Num(40170)

\* C12: at the end of every tick /Ac/MaxPower = 10000 and /StatusCode = 7,
\* whatever the outcome of the acquisition and whatever the two paths held
\* before the tick.
C12_ConstantsRepublished ==
    CycleEnd =>
        /\ reg["/Ac/MaxPower"] = Num(10000000)
        /\ reg["/StatusCode"] = Num(7000)

C12_Witness ==
    /\ CycleEnd
    /\ outcome = "openfail"
    /\ pre["/Ac/MaxPower"] = Num(42500)
    /\ reg["/Ac/MaxPower"] = Num(10000000)

IdentityPaths ==
    {"/Mgmt/ProcessName", "/Mgmt/ProcessVersion", "/Mgmt/Connection",
     "/DeviceInstance", "/ProductId", "/ProductName", "/FirmwareVersion",
     "/HardwareVersion", "/Connected", "/Position"}

\* C14: after any sequence of ticks and external write attempts the
\* identity and management paths hold the values given at startup.
C14_IdentityFrozen ==
    \A q \in IdentityPaths : reg[q] = Mandatory[q]

C14_Witness ==
    /\ ticks = 2
    /\ pc = "Idle"
    /\ ext.path = "/DeviceInstance"
    /\ ext.res = "NotWritableError"
    /\ grid_power # 0
    /\ reg["/DeviceInstance"] = Mandatory["/DeviceInstance"]

\* C17: at the end of every tick each of the 15 numeric telemetry paths
\* holds the value derived from the retained fields, so a value written
\* externally since the previous tick is overwritten, also when the cycle
\* obtained no reading.
C17_LastWriterWins ==
    CycleEnd =>
        /\ reg["/Ac/Power"] = Num(Round2(grid_power))
        /\ reg["/Ac/Current"] = Num(Round2(grid_current))
        /\ \A q \in VoltagePaths : reg[q] = Num(Round2(grid_voltage))
        /\ \A q \in CurrentPaths \ {"/Ac/Current"} :
              reg[q] = Num(Round2Div(grid_current, 3))
        /\ \A q \in PowerPaths \ {"/Ac/Power"} :
              reg[q] = Num(Round2Div(grid_power, 3))
        /\ reg["/Ac/Energy/Forward"] = Num(Round2Div(cum_energy_total, 1000))
        /\ \A q \in EnergyPaths \ {"/Ac/Energy/Forward"} :
              reg[q] = Num(Round2Div(cum_energy_total, 3000))

C17_Witness ==
    /\ CycleEnd
    /\ outcome = "offline"
    /\ pre["/Ac/L2/Power"] = Num(42500)
    /\ reg["/Ac/L2/Power"] = Num(0)

\* C19: in every acquisition call close is invoked exactly once, on every
\* path through the call.
C19_ClosedOnce ==
    pc \in {"pub", "ret"} => closeCount = 1

\* C13: at most one acquisition-and-publish cycle is in progress at any
\* time: a tick never starts a cycle while one is running, and a cycle
\* never opens the transport while it is open.
C13_OneCycle ==
    /\ [](running <= 1 /\ (running = 1 <=> pc # "Idle"))
    /\ [](pc = "connect" => ~open)
    /\ [][ticks' # ticks => (running = 0 /\ running' = 1)]_vars

C13_Witness ==
    /\ ticks = 2
    /\ running = 1
    /\ open
    /\ pc = "m3"

RequestOrder ==
    <<"connect", "time_date", "measure1", "measure2", "measure3",
      "cumulated_energy5">>

\* C16: within a cycle measurement requests are issued only after connect
\* succeeded and the clock query returned a non-offline value, and then in
\* the order voltage, current, power, cumulative energy; when the clock
\* query returns the offline marker no measurement request is issued.
C16_RequestOrder ==
    /\ Len(reqs) <= Len(RequestOrder)
    /\ \A i \in 1..Len(reqs) : reqs[i] = RequestOrder[i]
    /\ client_time = -1 => Issued \cap MeasureReqs = {}
    /\ Issued \cap MeasureReqs # {} =>
          /\ client_time \notin {-1, 0}
          /\ outcome \notin {"openfail", "timefail", "offline"}

C16_Witness ==
    /\ CycleEnd
    /\ ticks = 2
    /\ outcome = "ok"
    /\ reqs = RequestOrder
    /\ client_time = 846000000

\* C15: two successive cycles that obtain the same reading, with no
\* external write in between, leave the registry after the second cycle in
\* the state it had after the first.
C15_Idempotent ==
    (CycleEnd /\ outcome = "ok" /\ last.ok /\ last.dev = dev /\
     last.writes = writes) => reg = last.reg

C15_Witness ==
    /\ CycleEnd
    /\ outcome = "ok"
    /\ last.ok
    /\ last.dev = dev
    /\ last.writes = writes
    /\ reg = last.reg
    /\ reg["/Ac/Energy/Forward"] = Num(120500)

PrefixSets == {{}, {"V"}, {"V", "I"}, {"V", "I", "P"}, {"V", "I", "P", "E"}}

\* C18: in every cycle the set of retained fields that is updated is a
\* prefix of (voltage, current, power, cumulative energy), and the retained
\* fields are changed by nothing but a successful measurement request.
C18_PrefixUpdate ==
    /\ [](upd \in PrefixSets)
    /\ [][/\ grid_voltage' # grid_voltage =>
               (pc = "m1" /\ pc' = "m2" /\ grid_voltage' = dev.V)
          /\ grid_current' # grid_current =>
               (pc = "m2" /\ pc' = "m3" /\ grid_current' = dev.I)
          /\ grid_power' # grid_power =>
               (pc = "m3" /\ pc' = "m5" /\ grid_power' = dev.P)
          /\ cum_energy_total' # cum_energy_total =>
               (pc = "m5" /\ outcome' = "ok" /\ cum_energy_total' = dev.E)]_vars

C18_Witness ==
    /\ CycleEnd
    /\ upd = {"V", "I"}
    /\ outcome = "fail3"
    /\ pre["/Ac/L1/Voltage"] = Num(42500)
    /\ grid_voltage = dev.V
    /\ grid_power = 0
====
